---- MODULE Spec2Model ----
(***************************************************************************)
(* Flyway MCP server (src/server.js, lines 493-1100): the tool-call        *)
(* handler, the module-level active-project slot and the part of the file  *)
(* system the handler reads and writes.                                    *)
(*                                                                         *)
(* Encoding of JavaScript values:                                          *)
(*   - a string is a sequence of strings: a path is the sequence of its    *)
(*     segments ("/" first when absolute, "./" dropped), a description is   *)
(*     the sequence of its characters;                                     *)
(*   - Undefined / NotString stand for a missing string and for a value    *)
(*     that is not a string; Null / UndefinedMap for a missing object;     *)
(*   - an object is a record, a category map a function on its keys.       *)
(***************************************************************************)
EXTENDS Integers, Sequences, FiniteSets, TLC

VARIABLES
    activeProjectPath,    \* server.js:541  string or null
    activeProjectConfig,  \* server.js:542  parsed config object or null
    activeFlyway,         \* server.js:543  Flyway instance or null
    files,                \* file system: path of a config file -> its text
    dirs,                 \* file system: the set of existing directories
    migrations,           \* file system: migration file -> its text
    clock,                \* the instant `new Date()` returns, in half seconds
    last,                 \* the last invocation: tool, arguments, outcome
    inflight              \* the invocations suspended at an await

vars == <<activeProjectPath, activeProjectConfig, activeFlyway,
          files, dirs, migrations, clock, last, inflight>>

----------------------------------------------------------------------------
(* Bounds *)

MaxClock == 1
MaxFiles == 1
MaxLen == 4
MaxInstant == 12

----------------------------------------------------------------------------
(* JavaScript values *)

Undefined == <<"<undefined>">>
NotString == <<"<number>">>
NullPath == <<"<null>">>
EmptyStr == <<>>
Null == [null |-> TRUE]
UndefinedMap == [undefined |-> TRUE]
EmptyMap == [c \in {} |-> EmptyStr]

IsString(v) == v # Undefined /\ v # NotString

\* !!v for a string-or-undefined value
TruthyStr(v) == v # Undefined /\ v # EmptyStr

\* !!v for an object-or-undefined value ({} is truthy)
TruthyObj(v) == v # UndefinedMap /\ v # Null

----------------------------------------------------------------------------
(* Paths: path.isAbsolute, path.join *)

P1 == <<"/", "p1">>
NX == <<"/", "nx">>

ConfigName == ".flyway-mcp.json"

DefaultMigrations == <<"migrations">>          \* './migrations'
RelSchema == <<"db", "schema">>                \* './db/schema'
UnderCfg == <<ConfigName, "x">>                \* './.flyway-mcp.json/x'
AbsExt == <<"/", "ext">>                       \* '/ext'

isAbsolute(p) == Len(p) > 0 /\ p[1] = "/"

join(a, b) == a \o b

\* path.isAbsolute(p) ? p : path.join(base, p)
Resolve(base, p) == IF isAbsolute(p) THEN p ELSE join(base, p)

Prefixes(p) == {SubSeq(p, 1, n) : n \in 1..Len(p)}

Parent(p) == SubSeq(p, 1, Len(p) - 1)

----------------------------------------------------------------------------
(* Date: new Date().toISOString() *)

\* 23:59:59.000 on December 31st: the instant of clock = 0, in seconds of the day
BaseSecond == 23 * 3600 + 59 * 60 + 59

Digit(n) == <<"0", "1", "2", "3", "4", "5", "6", "7", "8", "9">>[n + 1]

Pad2(n) == <<Digit((n \div 10) % 10), Digit(n % 10)>>

Pad3(n) == <<Digit((n \div 100) % 10)>> \o Pad2(n)

Pad4(n) == <<Digit((n \div 1000) % 10)>> \o Pad3(n)

Pad6(n) == <<Digit((n \div 100000) % 10), Digit((n \div 10000) % 10)>> \o Pad4(n)

\* the year of an ISO-8601 text: four digits up to 9999, beyond that the
\* expanded form, a sign and six digits
YearText(y) == IF y > 9999 THEN <<"+">> \o Pad6(y) ELSE Pad4(y)

\* the year in which the instants of the state machine begin
StartYear == 2025

\* the calendar around the end of year y: <<year, month, day>> of the d-th
\* day after December 31st
DateOfDay(y, d) == IF d = 0 THEN <<y, 12, 31>> ELSE <<y + 1, 1, d>>

\* YYYY-MM-DDTHH:mm:ss.sssZ, one character per element, of the instant t half
\* seconds after 23:59:59.000 on December 31st of year y
toISOStringAt(y, t) ==
    LET secs == BaseSecond + (t \div 2)
        ms == (t % 2) * 500
        date == DateOfDay(y, secs \div 86400)
        sod == secs % 86400
    IN YearText(date[1]) \o <<"-">> \o Pad2(date[2]) \o <<"-">> \o Pad2(date[3])
       \o <<"T">> \o Pad2(sod \div 3600) \o <<":">> \o Pad2((sod \div 60) % 60)
       \o <<":">> \o Pad2(sod % 60) \o <<".">> \o Pad3(ms) \o <<"Z">>

\* instants from SecondEpoch on are counted from the end of year 9999
SecondEpoch == 10 * MaxInstant

\* new Date().toISOString() at instant t of the clock
toISOString(t) ==
    IF t >= SecondEpoch THEN toISOStringAt(9999, t - SecondEpoch)
    ELSE toISOStringAt(StartYear, t)

----------------------------------------------------------------------------
(* File system: fs.access, fs.mkdir(recursive), fs.readFile, fs.writeFile *)

\* the world a handler reads and writes: the slot and the file system
World == [path |-> activeProjectPath, config |-> activeProjectConfig,
          flyway |-> activeFlyway, files |-> files, dirs |-> dirs,
          migrations |-> migrations]

\* fs.access(p) resolves
access(w, p) == p \in w.dirs \/ p \in DOMAIN w.files

\* fs.mkdir(p, {recursive: true}) resolves: no file on the way
mkdirOk(w, p) == \A q \in Prefixes(p) : q \notin DOMAIN w.files

mkdir(w, p) == [w EXCEPT !.dirs = @ \cup Prefixes(p)]

\* fs.writeFile(p, text) resolves: the parent is a directory, p is not one
writeFileOk(w, p) == Parent(p) \in w.dirs /\ p \notin w.dirs

writeFile(w, p, text) ==
    [w EXCEPT !.files = [q \in (DOMAIN @) \cup {p} |->
                            IF q = p THEN text ELSE @[q]]]

----------------------------------------------------------------------------
(* JSON *)

Garbage == [kind |-> "garbage"]

JSONstringify(v) == [kind |-> "json", value |-> v]

\* JSON.parse(text) does not throw
JSONparseOk(text) == text.kind = "json"

JSONparse(text) == text.value

----------------------------------------------------------------------------
(* Project config file *)

ConfigPath(projectPath) == join(projectPath, <<ConfigName>>)

\* readProjectConfig: the parsed file, or null when reading or parsing throws
readProjectConfig(w, projectPath) ==
    LET configPath == ConfigPath(projectPath)
    IN IF configPath \in DOMAIN w.files /\ JSONparseOk(w.files[configPath])
       THEN JSONparse(w.files[configPath])
       ELSE Null

\* writeProjectConfig that writes nothing
writeProjectConfig_Skip(w, projectPath, config) == w

\* writeProjectConfig rejects when fs.writeFile does
writeProjectConfigOk(w, projectPath) == writeFileOk(w, ConfigPath(projectPath))

writeProjectConfig(w, projectPath, config) ==
    writeFile(w, ConfigPath(projectPath), JSONstringify(config))

\* the keys of a category map in insertion order (Object.keys, Object.entries)
CatNames == <<"schema", "data">>

ObjectKeys(m) == SelectSeq(CatNames, LAMBDA c : c \in DOMAIN m)

----------------------------------------------------------------------------
(* Outcomes of an invocation *)

\* no operation of a CLI handle was invoked
NoCall == [op |-> "none"]

NoReport == [none |-> TRUE]

Ok(w, report) == [err |-> "none", w |-> w, cli |-> NoCall, report |-> report]

Throw(e, w) == [err |-> e, w |-> w, cli |-> NoCall, report |-> NoReport]

----------------------------------------------------------------------------
(* initialize_project *)

\* InitializeProjectSchema: the object part
InitializeProjectObjectOk(a) ==
    /\ IsString(a.project_path)
    /\ IsString(a.database_url)
    /\ a.migrations_path # NotString
    /\ a.migration_categories # Null

\* InitializeProjectSchema: the refinement, "only one mode is specified"
InitializeProjectRefineOk(a) ==
    LET hasSimple == TruthyStr(a.migrations_path)
        hasStructured == TruthyObj(a.migration_categories)
    IN ~(hasSimple /\ hasStructured)

\* NewProjectConfig without the default for migrations_path
NewProjectConfig_NoDefault(a, t) ==
    IF TruthyObj(a.migration_categories)
    THEN [database_url |-> a.database_url,
          migrations_path |-> Undefined,
          migration_categories |-> a.migration_categories,
          created_at |-> toISOString(t)]
    ELSE [database_url |-> a.database_url,
          migrations_path |-> a.migrations_path,
          migration_categories |-> UndefinedMap,
          created_at |-> toISOString(t)]

\* the config a call builds when no config exists
NewProjectConfig(a, t) ==
    IF TruthyObj(a.migration_categories)
    THEN [database_url |-> a.database_url,
          migrations_path |-> Undefined,
          migration_categories |-> a.migration_categories,
          created_at |-> toISOString(t)]
    ELSE [database_url |-> a.database_url,
          migrations_path |-> IF TruthyStr(a.migrations_path)
                              THEN a.migrations_path ELSE DefaultMigrations,
          migration_categories |-> UndefinedMap,
          created_at |-> toISOString(t)]

\* the loop over Object.entries(projectConfig.migration_categories)
RECURSIVE CreateCategoryDirs(_, _, _, _, _)
CreateCategoryDirs(w, projectPath, cats, keys, createdDirs) ==
    IF keys = <<>>
    THEN Ok(w, createdDirs)
    ELSE LET category == Head(keys)
             absolutePath == Resolve(projectPath, cats[category])
         IN IF access(w, absolutePath)
            THEN CreateCategoryDirs(w, projectPath, cats, Tail(keys),
                    Append(createdDirs, <<category, absolutePath, "already existed">>))
            ELSE IF ~mkdirOk(w, absolutePath)
            THEN Throw("io", w)
            ELSE CreateCategoryDirs(mkdir(w, absolutePath), projectPath, cats,
                    Tail(keys),
                    Append(createdDirs, <<category, absolutePath, "created">>))

\* the single migrations directory of simple mode
CreateSimpleDir(w, projectPath, migrationsPathConfig) ==
    IF ~IsString(migrationsPathConfig)
    THEN Throw("type_error", w)       \* path.isAbsolute(undefined)
    ELSE LET migrationsPath == Resolve(projectPath, migrationsPathConfig)
         IN IF access(w, migrationsPath)
            THEN Ok(w, <<(<<"", migrationsPath, "already existed">>)>>)
            ELSE IF ~mkdirOk(w, migrationsPath)
            THEN Throw("io", w)
            ELSE Ok(mkdir(w, migrationsPath),
                    <<(<<"", migrationsPath, "created">>)>>)

FilesystemLocation(p) == <<"filesystem:">> \o p

\* new Flyway(flywayConfig)
NewFlyway(projectPath, projectConfig, isStructuredMode) ==
    [url |-> projectConfig.database_url,
     locations |->
        IF isStructuredMode
        THEN {FilesystemLocation(Resolve(projectPath,
                  projectConfig.migration_categories[c])) :
                  c \in DOMAIN projectConfig.migration_categories}
        ELSE {FilesystemLocation(Resolve(projectPath,
                  projectConfig.migrations_path))}]

\* InitializeDirsAndActivate with the active path assigned before the
\* directories are made
InitializeDirsAndActivate_PathFirst(w, projectPath, projectConfig, configExisted) ==
    LET isStructuredMode == TruthyObj(projectConfig.migration_categories)
        w1 == [w EXCEPT !.path = projectPath]
        made == IF isStructuredMode
                THEN CreateCategoryDirs(w1, projectPath,
                        projectConfig.migration_categories,
                        ObjectKeys(projectConfig.migration_categories), <<>>)
                ELSE CreateSimpleDir(w1, projectPath,
                        projectConfig.migrations_path)
    IN IF made.err # "none"
       THEN made
       ELSE Ok([made.w EXCEPT
                    !.config = projectConfig,
                    !.flyway = NewFlyway(projectPath, projectConfig,
                                         isStructuredMode)],
               [mode |-> IF isStructuredMode THEN "structured" ELSE "simple",
                createdDirs |-> made.report,
                config |-> IF configExisted THEN "already existed"
                           ELSE "created"])

\* from the directories on: create them, set the slot, build the handle
InitializeDirsAndActivate(w, projectPath, projectConfig, configExisted) ==
    LET isStructuredMode == TruthyObj(projectConfig.migration_categories)
        made == IF isStructuredMode
                THEN CreateCategoryDirs(w, projectPath,
                        projectConfig.migration_categories,
                        ObjectKeys(projectConfig.migration_categories), <<>>)
                ELSE CreateSimpleDir(w, projectPath,
                        projectConfig.migrations_path)
    IN IF made.err # "none"
       THEN made
       ELSE Ok([made.w EXCEPT
                    !.path = projectPath,
                    !.config = projectConfig,
                    !.flyway = NewFlyway(projectPath, projectConfig,
                                         isStructuredMode)],
               [mode |-> IF isStructuredMode THEN "structured" ELSE "simple",
                createdDirs |-> made.report,
                config |-> IF configExisted THEN "already existed"
                           ELSE "created"])

initialize_project(w, a, t) ==
    IF ~InitializeProjectObjectOk(a) THEN Throw("validation", w)
    ELSE IF ~InitializeProjectRefineOk(a) THEN Throw("cannot_specify_both", w)
    ELSE LET projectPath == a.project_path
         IN IF ~access(w, projectPath) THEN Throw("no_directory", w)
            ELSE LET existingConfig == readProjectConfig(w, projectPath)
                 IN IF existingConfig # Null
                    THEN InitializeDirsAndActivate(w, projectPath,
                                                   existingConfig, TRUE)
                    ELSE IF ~writeProjectConfigOk(w, projectPath)
                    THEN Throw("io", w)
                    ELSE InitializeDirsAndActivate(
                            writeProjectConfig(w, projectPath,
                                               NewProjectConfig(a, t)),
                            projectPath, NewProjectConfig(a, t), FALSE)

----------------------------------------------------------------------------
(* requireInitializedProject, getMigrationsDirectory *)

\* requireInitializedProject does not throw
requireInitializedProject(w) ==
    ~(~(w.path # NullPath /\ w.path # EmptyStr) \/ ~(w.config # Null))

\* the process's working directory, against which fs resolves relative paths
Cwd == <<"/", "cwd">>

\* index.js: config.locations when FLYWAY_LOCATIONS is not set
GlobalLocations == <<(<<"filesystem:", "migrations">>)>>

\* the properties every object inherits from Object.prototype
ObjectPrototypeKeys == {"constructor", "toString", "__proto__"}

\* obj[key] on a category map: the own property, else the inherited one
\* (a function or an object: a truthy value that is no string), else undefined
PropertyGet(m, key) ==
    IF key \in DOMAIN m THEN m[key]
    ELSE IF key \in ObjectPrototypeKeys THEN NotString
    ELSE Undefined

\* getMigrationsDirectory(globalConfig, category): [err, dir, listed]
getMigrationsDirectory(w, category) ==
    IF w.config # Null /\ TruthyObj(w.config.migration_categories)
    THEN IF ~TruthyStr(category)
         THEN [err |-> "category_required", dir |-> EmptyStr,
               listed |-> ObjectKeys(w.config.migration_categories)]
         ELSE LET categoryPath == PropertyGet(w.config.migration_categories,
                                              Head(category))
              IN IF ~TruthyStr(categoryPath)
                 THEN [err |-> "invalid_category", dir |-> EmptyStr,
                       listed |-> ObjectKeys(w.config.migration_categories)]
                 ELSE IF ~IsString(categoryPath)   \* path.isAbsolute throws
                 THEN [err |-> "type_error", dir |-> EmptyStr, listed |-> <<>>]
                 ELSE [err |-> "none", dir |-> Resolve(w.path, categoryPath),
                       listed |-> <<>>]
    ELSE IF w.config # Null /\ TruthyStr(w.config.migrations_path)
    THEN [err |-> "none", dir |-> Resolve(w.path, w.config.migrations_path),
          listed |-> <<>>]
    ELSE IF Len(GlobalLocations) > 0 /\ Head(GlobalLocations[1]) = "filesystem:"
    THEN [err |-> "none", dir |-> Tail(GlobalLocations[1]), listed |-> <<>>]
    ELSE [err |-> "none", dir |-> DefaultMigrations, listed |-> <<>>]

----------------------------------------------------------------------------
(* update_migration_path *)

\* update_migration_path that also makes the new directory
update_migration_path_MakesDir(w, a) ==
    IF ~IsString(a.new_migrations_path) THEN Throw("validation", w)
    ELSE IF ~requireInitializedProject(w) THEN Throw("no_project", w)
    ELSE LET updatedConfig == [w.config EXCEPT
                                  !.migrations_path = a.new_migrations_path]
             w2 == [writeProjectConfig(w, w.path, updatedConfig)
                       EXCEPT !.config = updatedConfig]
         IN IF ~IsString(w.config.migrations_path)
            THEN Throw("type_error", w2)
            ELSE Ok(mkdir(w2, Resolve(w.path, a.new_migrations_path)),
                    [old |-> Resolve(w.path, w.config.migrations_path),
                     new |-> Resolve(w.path, a.new_migrations_path)])

update_migration_path(w, a) ==
    IF ~IsString(a.new_migrations_path) THEN Throw("validation", w)
    ELSE IF ~requireInitializedProject(w) THEN Throw("no_project", w)
    ELSE LET newMigrationsPath == a.new_migrations_path
             oldMigrationsPath == w.config.migrations_path
             updatedConfig == [w.config EXCEPT
                                  !.migrations_path = newMigrationsPath]
         IN IF ~writeProjectConfigOk(w, w.path) THEN Throw("io", w)
            ELSE LET w2 == [writeProjectConfig(w, w.path, updatedConfig)
                               EXCEPT !.config = updatedConfig]
                 IN IF ~IsString(oldMigrationsPath)
                    THEN Throw("type_error", w2)  \* path.isAbsolute(undefined)
                    ELSE Ok(w2,
                            [old |-> Resolve(w.path, oldMigrationsPath),
                             new |-> Resolve(w.path, newMigrationsPath)])

----------------------------------------------------------------------------
(* flyway_info, flyway_migrate, flyway_validate, flyway_clean,             *)
(* flyway_baseline, flyway_repair                                          *)

PassThroughTools == {"flyway_info", "flyway_migrate", "flyway_validate",
                     "flyway_clean", "flyway_baseline", "flyway_repair"}

\* the operation of the handle a tool names
CliOperation(tool) ==
    CASE tool = "flyway_info" -> "info"
      [] tool = "flyway_migrate" -> "migrate"
      [] tool = "flyway_validate" -> "validate"
      [] tool = "flyway_clean" -> "clean"
      [] tool = "flyway_baseline" -> "baseline"
      [] tool = "flyway_repair" -> "repair"

\* z.object({...}).parse(args): args is an object, its declared fields fit
PassThroughSchemaOk(tool, a) ==
    /\ a.isObject
    /\ tool = "flyway_baseline" =>
          a.baselineVersion # NotString /\ a.baselineDescription # NotString

\* CliArgument with the description defaulted when it is not supplied
CliArgument_DefaultDescription(tool, a) ==
    IF tool = "flyway_baseline"
    THEN [baselineVersion |-> a.baselineVersion,
          baselineDescription |-> IF a.baselineDescription = Undefined
                                  THEN <<"baseline">>
                                  ELSE a.baselineDescription]
    ELSE [none |-> TRUE]

\* the argument the handle's operation receives: for flyway_baseline the
\* parsed arguments, which hold the declared fields only (z.object strips
\* the others)
CliArgument(tool, a) ==
    IF tool = "flyway_baseline"
    THEN [baselineVersion |-> a.baselineVersion,
          baselineDescription |-> a.baselineDescription]
    ELSE [none |-> TRUE]

\* JSON.stringify on a result of the handle: a Date is replaced by its
\* toISOString() text (Date.prototype.toJSON), the other values are kept
toJSON(value) ==
    [value EXCEPT !.installedOn =
        IF @.type = "Date"
        THEN [type |-> "string", chars |-> toISOString(@.time)]
        ELSE @]

\* the catch of the handler: a ZodError becomes a new Error with the text
\* 'Invalid arguments: ...', every other error is thrown on as it is
CaughtError(e) ==
    IF e.name = "ZodError"
    THEN [name |-> "Error", message |-> <<"Invalid arguments: ">> \o e.message]
    ELSE e

\* const result = await activeFlyway.<op>(...); return JSON.stringify(result)
\* outcome is what the handle does: it resolves with a value or rejects with
\* an error
CallHandle(w, tool, a, outcome) ==
    IF outcome.kind = "reject"
    THEN [err |-> IF outcome.error.name = "ZodError" THEN "validation"
                  ELSE "upstream",
          w |-> w,
          cli |-> [op |-> CliOperation(tool), arg |-> CliArgument(tool, a),
                   calls |-> 1, answer |-> outcome],
          report |-> [error |-> CaughtError(outcome.error)]]
    ELSE [err |-> "none",
          w |-> w,
          cli |-> [op |-> CliOperation(tool), arg |-> CliArgument(tool, a),
                   calls |-> 1, answer |-> outcome],
          report |-> [text |-> JSONstringify(toJSON(outcome.value))]]

\* pass_through without its call of requireInitializedProject
pass_through_NoGuard(w, tool, a, outcome) ==
    IF ~PassThroughSchemaOk(tool, a) THEN Throw("validation", w)
    ELSE IF w.flyway = Null THEN Throw("type_error", w)
    ELSE CallHandle(w, tool, a, outcome)

\* pass_through that drops the active project when the handle rejects
pass_through_ResetsOnReject(w, tool, a, outcome) ==
    IF ~PassThroughSchemaOk(tool, a) THEN Throw("validation", w)
    ELSE IF ~requireInitializedProject(w) THEN Throw("no_project", w)
    ELSE IF w.flyway = Null THEN Throw("type_error", w)
    ELSE IF outcome.kind = "reject"
    THEN [CallHandle(w, tool, a, outcome) EXCEPT
             !.w = [w EXCEPT !.path = NullPath, !.config = Null,
                             !.flyway = Null]]
    ELSE CallHandle(w, tool, a, outcome)

pass_through(w, tool, a, outcome) ==
    IF ~PassThroughSchemaOk(tool, a) THEN Throw("validation", w)
    ELSE IF ~requireInitializedProject(w) THEN Throw("no_project", w)
    ELSE IF w.flyway = Null THEN Throw("type_error", w)  \* null.info()
    ELSE CallHandle(w, tool, a, outcome)

----------------------------------------------------------------------------
(* create_migration: timestamp, cleanDescription, filename *)

Digits == {"0", "1", "2", "3", "4", "5", "6", "7", "8", "9"}

LowerLetters == {"a", "b", "c", "d"}

\* String.prototype.toLowerCase on the letters of the model
UpperToLower == [A |-> "a", B |-> "b", C |-> "c", D |-> "d"]

toLowerCase(s) ==
    [i \in 1..Len(s) |-> IF s[i] \in DOMAIN UpperToLower
                         THEN UpperToLower[s[i]] ELSE s[i]]

\* s.replace(/[-:T]/g, '')
RemoveDateSeparators(s) == SelectSeq(s, LAMBDA c : c \notin {"-", ":", "T"})

\* s.replace(/\.\d+Z$/, '')
RemoveFraction(s) ==
    LET starts == {i \in 1..Len(s) :
                      /\ s[i] = "."
                      /\ i + 1 < Len(s)
                      /\ s[Len(s)] = "Z"
                      /\ \A j \in (i + 1)..(Len(s) - 1) : s[j] \in Digits}
    IN IF starts = {} THEN s
       ELSE SubSeq(s, 1, (CHOOSE i \in starts : \A k \in starts : i <= k) - 1)

\* s.slice(0, n)
Slice0(s, n) == SubSeq(s, 1, IF Len(s) < n THEN Len(s) ELSE n)

\* iso.replace(/[-:T]/g, '').replace(/\.\d+Z$/, '').slice(0, 14)
TimestampOf(iso) == Slice0(RemoveFraction(RemoveDateSeparators(iso)), 14)

\* YYYYMMDDHHmmss
timestamp(t) == TimestampOf(toISOString(t))

IsAlnum(c) == c \in LowerLetters \cup Digits

RECURSIVE SkipNonAlnum(_)
SkipNonAlnum(s) ==
    IF s # <<>> /\ ~IsAlnum(Head(s)) THEN SkipNonAlnum(Tail(s)) ELSE s

\* s.replace(/[^a-z0-9]/g, '_'): each character on its own, not each run
ReplaceNonAlnumEach(s) ==
    [i \in 1..Len(s) |-> IF IsAlnum(s[i]) THEN s[i] ELSE "_"]

\* s.replace(/[^a-z0-9]+/g, '_')
RECURSIVE ReplaceNonAlnumRuns(_)
ReplaceNonAlnumRuns(s) ==
    IF s = <<>> THEN <<>>
    ELSE IF IsAlnum(Head(s)) THEN <<Head(s)>> \o ReplaceNonAlnumRuns(Tail(s))
    ELSE <<"_">> \o ReplaceNonAlnumRuns(SkipNonAlnum(Tail(s)))

RECURSIVE StripLeadingUnderscores(_)
StripLeadingUnderscores(s) ==
    IF s # <<>> /\ Head(s) = "_" THEN StripLeadingUnderscores(Tail(s)) ELSE s

RECURSIVE StripTrailingUnderscores(_)
StripTrailingUnderscores(s) ==
    IF s # <<>> /\ s[Len(s)] = "_"
    THEN StripTrailingUnderscores(SubSeq(s, 1, Len(s) - 1)) ELSE s

\* description.toLowerCase().replace(/[^a-z0-9]+/g, '_').replace(/^_+|_+$/g, '')
cleanDescription(d) ==
    StripTrailingUnderscores(StripLeadingUnderscores(
        ReplaceNonAlnumRuns(toLowerCase(d))))

\* `V${timestamp}__${cleanDescription}.sql`
MigrationFilename(ts, desc) ==
    <<"V">> \o ts \o <<"_", "_">> \o desc \o <<".", "s", "q", "l">>

\* path.join(migrationDir, filename), resolved by fs against the working dir
MigrationFilepath(migrationDir, filename) ==
    [dir |-> Resolve(Cwd, migrationDir), name |-> filename]

CreateMigrationSchemaOk(a) ==
    /\ IsString(a.description)
    /\ IsString(a.sql)
    /\ a.category # NotString

\* The UTF-16 code units of a text are the elements of its sequence; a run
\* of plain characters may stand as one element. <D83D> is a high surrogate,
\* <DE00> a low surrogate, <FFFD> the replacement character.
HighSurrogates == {"<D83D>"}
LowSurrogates == {"<DE00>"}

\* the code unit at i is a surrogate without its partner
UnpairedSurrogate(s, i) ==
    \/ s[i] \in HighSurrogates /\ ~(i < Len(s) /\ s[i + 1] \in LowSurrogates)
    \/ s[i] \in LowSurrogates /\ ~(i > 1 /\ s[i - 1] \in HighSurrogates)

\* Utf8Encode that leaves every surrogate out
Utf8Encode_DropsSurrogates(s) ==
    SelectSeq(s, LAMBDA c : c \notin HighSurrogates \cup LowSurrogates)

\* fs.writeFile(path, text, 'utf8'): the bytes written. An unpaired surrogate
\* is written as the bytes EF BF BD of U+FFFD; every other element stands
\* for its own encoding.
Utf8Encode(s) ==
    [i \in 1..Len(s) |->
        IF UnpairedSurrogate(s, i) \/ s[i] = "<FFFD>" THEN "<EF BF BD>"
        ELSE s[i]]

\* fs.readFile(path, 'utf8'): the text of the bytes
Utf8Decode(b) ==
    [i \in 1..Len(b) |-> IF b[i] = "<EF BF BD>" THEN "<FFFD>" ELSE b[i]]

\* create_migration with the guard placed after the directory is made
create_migration_LateGuard(w, a, t) ==
    IF ~CreateMigrationSchemaOk(a) THEN Throw("validation", w)
    ELSE LET resolved == getMigrationsDirectory(w, a.category)
         IN IF resolved.err # "none" THEN Throw(resolved.err, w)
            ELSE IF ~mkdirOk(w, Resolve(Cwd, resolved.dir)) THEN Throw("io", w)
            ELSE Throw("no_project", mkdir(w, Resolve(Cwd, resolved.dir)))

create_migration(w, a, t) ==
    IF ~CreateMigrationSchemaOk(a) THEN Throw("validation", w)
    ELSE IF ~requireInitializedProject(w) THEN Throw("no_project", w)
    ELSE LET category == a.category
             resolved == getMigrationsDirectory(w, category)
             migrationDir == resolved.dir
         IN IF resolved.err # "none"
            THEN [Throw(resolved.err, w) EXCEPT
                      !.report = [listed |-> resolved.listed]]
            ELSE IF ~mkdirOk(w, Resolve(Cwd, migrationDir)) THEN Throw("io", w)
            ELSE LET w2 == mkdir(w, Resolve(Cwd, migrationDir))
                     filename == MigrationFilename(timestamp(t),
                                    cleanDescription(a.description))
                     filepath == MigrationFilepath(migrationDir, filename)
                 IN Ok([w2 EXCEPT !.migrations =
                            [f \in (DOMAIN @) \cup {filepath} |->
                                IF f = filepath THEN Utf8Encode(a.sql)
                                ELSE @[f]]],
                       [path |-> filepath,
                        category |-> IF TruthyStr(category) THEN category
                                     ELSE Undefined,
                        version |-> timestamp(t),
                        description |-> cleanDescription(a.description),
                        content |-> a.sql])

----------------------------------------------------------------------------
(* resetProjectState, setActiveFlyway *)

\* resetProjectState as it was before activeFlyway was added to the slot
resetProjectState_KeepsFlyway(w) ==
    [w EXCEPT !.path = NullPath, !.config = Null]

resetProjectState(w) ==
    [w EXCEPT !.path = NullPath, !.config = Null, !.flyway = Null]

setActiveFlyway(w, flyway) == [w EXCEPT !.flyway = flyway]

----------------------------------------------------------------------------
(* The arguments the invocations of the model draw from *)

Url0 == <<"postgresql://old">>
Url1 == <<"postgresql://new">>

CatsA == [c \in {"schema"} |-> RelSchema]

\* initialize_project: every combination of the optional path arguments on
\* an existing root with a database_url; project_path alone; a missing root
InitializeProjectArgs ==
    {a \in [project_path : {P1, NX},
            database_url : {Undefined, Url1},
            migrations_path : {Undefined, EmptyStr, UnderCfg},
            migration_categories : {UndefinedMap, EmptyMap, CatsA}] :
        (a.project_path = NX \/ a.database_url = Undefined) =>
            (a.migrations_path = Undefined
             /\ a.migration_categories = UndefinedMap)}

NewMigrationsPathArgs == {Undefined, EmptyStr, AbsExt}
DescriptionArgs == {NotString, <<"_", "A", " ", "-", "b", "!">>}
SqlArgs == {<<"CREATE">>}
CategoryArgs == {Undefined, <<"schema">>, <<"bogus">>, <<"constructor">>}

\* the arguments of a pass-through tool: not an object, or an object with
\* the two fields of flyway_baseline and a field the schema does not declare
PassThroughArgs(tool) ==
    {a \in [isObject : BOOLEAN,
            baselineVersion : {Undefined, NotString, <<"1">>},
            baselineDescription : {Undefined, <<"base">>},
            extra : {Undefined, <<"x">>}] :
        /\ (tool # "flyway_baseline" \/ ~a.isObject) =>
              (a.baselineVersion = Undefined
               /\ a.baselineDescription = Undefined)
        /\ a.baselineVersion = Undefined => a.baselineDescription = Undefined
        /\ a.extra # Undefined =>
              (a.baselineVersion = <<"1">> /\ a.baselineDescription = <<"base">>)}

\* what the handle does with a call: it resolves with a result that holds
\* JSON values only or with one that holds a Date, or it rejects with an
\* Error or with a ZodError
InstalledOnText == [type |-> "string", chars |-> <<"2024-01-01 00:00:00.0">>]
InstalledOnDate == [type |-> "Date", time |-> 0]

HandleOutcomes ==
    {[kind |-> "resolve", value |-> [success |-> TRUE, installedOn |-> i]] :
        i \in {InstalledOnText, InstalledOnDate}}
    \cup
    {[kind |-> "reject", error |-> [name |-> n, message |-> <<"failed">>]] :
        n \in {"Error", "ZodError"}}

\* every outcome for flyway_info; a JSON result and an Error for the others
HandleOutcomesOf(tool) ==
    IF tool = "flyway_info" THEN HandleOutcomes
    ELSE {o \in HandleOutcomes :
            \/ o.kind = "resolve" /\ o.value.installedOn = InstalledOnText
            \/ o.kind = "reject" /\ o.error.name = "Error"}

\* a handle injected through setActiveFlyway
MockFlyway == [url |-> <<"mock">>, locations |-> {}]

\* config files found at start: text that is no JSON, and configs
\* written by an earlier run of the server
OldCreatedAt == <<"2", "0", "2", "4", "-", "0", "1", "-", "0", "1", "T",
                  "0", "0", ":", "0", "0", ":", "0", "0", ".",
                  "0", "0", "0", "Z">>

OldSimpleConfig == [database_url |-> Url0,
                    migrations_path |-> DefaultMigrations,
                    migration_categories |-> UndefinedMap,
                    created_at |-> OldCreatedAt]

OldStructuredConfig == [database_url |-> Url0,
                        migrations_path |-> Undefined,
                        migration_categories |->
                            [c \in {"schema"} |-> RelSchema],
                        created_at |-> OldCreatedAt]

ExistingConfigTexts == {Garbage,
                        JSONstringify(OldSimpleConfig),
                        JSONstringify(OldStructuredConfig)}

----------------------------------------------------------------------------
(* The state machine *)

\* the requests a handler is running for: none is suspended
Invocations == {1, 2}
Idle == [pc |-> "idle"]
NoInvocations == [i \in Invocations |-> Idle]

NoArgs == [none |-> TRUE]

Init ==
    /\ activeProjectPath = NullPath
    /\ activeProjectConfig = Null
    /\ activeFlyway = Null
    /\ dirs = {<<"/">>, P1, Cwd}
    /\ files \in {[p \in {} |-> Garbage]} \cup
                 {[p \in {ConfigPath(P1)} |-> text] :
                      text \in ExistingConfigTexts}
    /\ migrations = [f \in {} |-> EmptyStr]
    /\ clock = 0
    /\ inflight = NoInvocations
    /\ last = [tool |-> "start", args |-> NoArgs, err |-> "none",
               cli |-> NoCall, report |-> NoReport, pre |-> [active |-> FALSE]]

\* an invocation ran to its end with outcome r
Complete(tool, a, r) ==
    /\ Cardinality(DOMAIN r.w.migrations) <= MaxFiles
    /\ activeProjectPath' = r.w.path
    /\ activeProjectConfig' = r.w.config
    /\ activeFlyway' = r.w.flyway
    /\ files' = r.w.files
    /\ dirs' = r.w.dirs
    /\ migrations' = r.w.migrations
    /\ last' = [tool |-> tool, args |-> a, err |-> r.err, cli |-> r.cli,
                report |-> r.report,
                pre |-> [active |-> requireInitializedProject(World)]]
    /\ UNCHANGED <<clock, inflight>>

InitializeProject ==
    \E a \in InitializeProjectArgs :
        Complete("initialize_project", a, initialize_project(World, a, clock))

UpdateMigrationPath ==
    \E np \in NewMigrationsPathArgs :
        LET a == [new_migrations_path |-> np]
        IN Complete("update_migration_path", a,
                    update_migration_path(World, a))

PassThrough ==
    \E tool \in PassThroughTools :
        \E outcome \in HandleOutcomesOf(tool), a \in PassThroughArgs(tool) :
            Complete(tool, a, pass_through(World, tool, a, outcome))

CreateMigration ==
    \E d \in DescriptionArgs, sql \in SqlArgs, cat \in CategoryArgs :
        LET a == [description |-> d, sql |-> sql, category |-> cat]
        IN Complete("create_migration", a,
                    create_migration(World, a, clock))

ResetProjectState ==
    Complete("resetProjectState", NoArgs, Ok(resetProjectState(World), NoReport))

SetActiveFlyway ==
    \E f \in {Null, MockFlyway} :
        Complete("setActiveFlyway", [flyway |-> f],
                 Ok(setActiveFlyway(World, f), NoReport))

\* time passes between invocations
Tick ==
    /\ clock < MaxClock
    /\ clock' = clock + 1
    /\ UNCHANGED <<activeProjectPath, activeProjectConfig, activeFlyway,
                   files, dirs, migrations, last, inflight>>

Next ==
    \/ InitializeProject
    \/ UpdateMigrationPath
    \/ PassThrough
    \/ CreateMigration
    \/ ResetProjectState
    \/ SetActiveFlyway
    \/ Tick

Spec == Init /\ [][Next]_vars

----------------------------------------------------------------------------
(* The state machine with two project roots: the same handlers, invoked    *)
(* with well-formed arguments on /p1, on /p2 and on a missing root         *)

P2 == <<"/", "p2">>

\* initialize_project on either root with a database_url alone, on /p2 with
\* a migrations_path no directory can be made at, and on a missing root
RootsInitializeProjectArgs ==
    {a \in [project_path : {P1, P2, NX},
            database_url : {Url1},
            migrations_path : {Undefined, UnderCfg},
            migration_categories : {UndefinedMap}] :
        a.migrations_path = UnderCfg => a.project_path = P2}

InitRoots ==
    /\ activeProjectPath = NullPath
    /\ activeProjectConfig = Null
    /\ activeFlyway = Null
    /\ dirs = {<<"/">>, P1, P2, Cwd}
    /\ files \in {[p \in {} |-> Garbage],
                  [p \in {ConfigPath(P1)} |-> JSONstringify(OldSimpleConfig)]}
    /\ migrations = [f \in {} |-> EmptyStr]
    /\ clock = 0
    /\ inflight = NoInvocations
    /\ last = [tool |-> "start", args |-> NoArgs, err |-> "none",
               cli |-> NoCall, report |-> NoReport, pre |-> [active |-> FALSE]]

InitializeProjectRoots ==
    \E a \in RootsInitializeProjectArgs :
        Complete("initialize_project", a, initialize_project(World, a, clock))

UpdateMigrationPathRoots ==
    \E np \in {Undefined, AbsExt} :
        LET a == [new_migrations_path |-> np]
        IN Complete("update_migration_path", a,
                    update_migration_path(World, a))

PassThroughRoots ==
    \E outcome \in HandleOutcomes :
        LET a == [isObject |-> TRUE, baselineVersion |-> Undefined,
                  baselineDescription |-> Undefined, extra |-> Undefined]
        IN Complete("flyway_info", a,
                    pass_through(World, "flyway_info", a, outcome))

CreateMigrationRoots ==
    \E d \in DescriptionArgs :
        LET a == [description |-> d, sql |-> <<"CREATE">>,
                  category |-> Undefined]
        IN Complete("create_migration", a,
                    create_migration(World, a, clock))

NextRoots ==
    \/ InitializeProjectRoots
    \/ UpdateMigrationPathRoots
    \/ PassThroughRoots
    \/ CreateMigrationRoots
    \/ ResetProjectState
    \/ SetActiveFlyway
    \/ Tick

SpecRoots == InitRoots /\ [][NextRoots]_vars

----------------------------------------------------------------------------
(* cleanDescription on its own: every description of up to MaxLen          *)
(* characters over a lower-case letter, an upper-case letter, a digit, an  *)
(* underscore, a space and a hyphen                                        *)

\* ---- new configs --------------------------------------------------------
\* initialize_project on two roots with every kind of path argument: absent,
\* empty, relative, absolute; no categories, none listed, one, two

RelDb == <<"db">>                              \* './db'
CatsAB == [c \in {"schema", "data"} |->
              IF c = "schema" THEN RelSchema ELSE <<"db", "data">>]

NewConfigArgs ==
    [project_path : {P1, P2},
     database_url : {Url1},
     migrations_path : {Undefined, EmptyStr, RelDb, AbsExt},
     migration_categories : {UndefinedMap, EmptyMap, CatsA, CatsAB}]

InitializeProjectNew ==
    \E a \in NewConfigArgs :
        Complete("initialize_project", a, initialize_project(World, a, clock))

NextNewConfig ==
    \/ InitializeProjectNew
    \/ ResetProjectState
    \/ Tick

SpecNewConfig == InitRoots /\ [][NextNewConfig]_vars

\* ---- invocations in flight ----------------------------------------------
\* The handler is an async function and the server starts it for a request
\* while the handler of an earlier request is suspended at an await. Each
\* action below is the code of a handler from one await to the next.

InterleaveInitializeArgs ==
    {[project_path |-> P1, database_url |-> Url0,
      migrations_path |-> Undefined, migration_categories |-> UndefinedMap],
     [project_path |-> P2, database_url |-> Url1,
      migrations_path |-> Undefined, migration_categories |-> UndefinedMap],
     [project_path |-> P2, database_url |-> Url1,
      migrations_path |-> RelDb, migration_categories |-> UndefinedMap]}

SetWorld(w) ==
    /\ activeProjectPath' = w.path
    /\ activeProjectConfig' = w.config
    /\ activeFlyway' = w.flyway
    /\ files' = w.files
    /\ dirs' = w.dirs
    /\ migrations' = w.migrations

\* invocation i goes on to its next await, keeping its local variables
Suspend(i, frame) ==
    /\ inflight' = [inflight EXCEPT ![i] = frame]
    /\ UNCHANGED <<clock, last>>

\* invocation i returns or throws with outcome r
Finish(i, r) ==
    /\ SetWorld(r.w)
    /\ last' = [tool |-> inflight[i].tool, args |-> inflight[i].args,
                err |-> r.err, cli |-> r.cli, report |-> r.report,
                pre |-> [active |-> requireInitializedProject(World)]]
    /\ inflight' = [inflight EXCEPT ![i] = Idle]
    /\ UNCHANGED clock

\* initialize_project up to `await fs.access(projectPath)`
BeginInitialize(i) ==
    /\ inflight[i] = Idle
    /\ \E a \in InterleaveInitializeArgs :
          /\ InitializeProjectObjectOk(a)
          /\ InitializeProjectRefineOk(a)
          /\ Suspend(i, [tool |-> "initialize_project", args |-> a,
                         pc |-> "access"])
    /\ SetWorld(World)

\* fs.access settles; on to `await readProjectConfig(projectPath)`
InitializeAccess(i) ==
    /\ inflight[i].pc = "access"
    /\ inflight[i].tool = "initialize_project"
    /\ IF access(World, inflight[i].args.project_path)
       THEN Suspend(i, [inflight[i] EXCEPT !.pc = "read"]) /\ SetWorld(World)
       ELSE Finish(i, Throw("no_directory", World))

\* readProjectConfig settles; the new config is built and
\* `await writeProjectConfig` begins, or the existing config is taken
InitializeRead(i) ==
    /\ inflight[i].pc = "read"
    /\ LET a == inflight[i].args
           existingConfig == readProjectConfig(World, a.project_path)
       IN Suspend(i, [tool |-> "initialize_project", args |-> a,
                      pc |-> IF existingConfig # Null THEN "dirs" ELSE "write",
                      projectConfig |-> IF existingConfig # Null
                                        THEN existingConfig
                                        ELSE NewProjectConfig(a, clock),
                      configExisted |-> existingConfig # Null])
    /\ SetWorld(World)

\* fs.writeFile of the new config settles
InitializeWrite(i) ==
    /\ inflight[i].pc = "write"
    /\ inflight[i].tool = "initialize_project"
    /\ LET p == inflight[i].args.project_path
       IN IF writeProjectConfigOk(World, p)
          THEN /\ SetWorld(writeProjectConfig(World, p,
                                              inflight[i].projectConfig))
               /\ Suspend(i, [inflight[i] EXCEPT !.pc = "dirs"])
          ELSE Finish(i, Throw("io", World))

\* the directories are made, the slot is set, the handle is built
InitializeDirs(i) ==
    /\ inflight[i].pc = "dirs"
    /\ Finish(i, InitializeDirsAndActivate(World,
                     inflight[i].args.project_path,
                     inflight[i].projectConfig, inflight[i].configExisted))

\* update_migration_path up to `await writeProjectConfig(activeProjectPath,
\* updatedConfig)`: both arguments of the call are evaluated here
BeginUpdate(i) ==
    /\ inflight[i] = Idle
    /\ \E np \in {AbsExt} :
          LET a == [new_migrations_path |-> np]
          IN /\ IsString(np)
             /\ requireInitializedProject(World)
             /\ Suspend(i, [tool |-> "update_migration_path", args |-> a,
                            pc |-> "write",
                            target |-> activeProjectPath,
                            oldMigrationsPath |->
                                activeProjectConfig.migrations_path,
                            updatedConfig |->
                                [activeProjectConfig EXCEPT
                                    !.migrations_path = np]])
    /\ SetWorld(World)

\* fs.writeFile of the updated config settles
UpdateWrite(i) ==
    /\ inflight[i].pc = "write"
    /\ inflight[i].tool = "update_migration_path"
    /\ IF writeProjectConfigOk(World, inflight[i].target)
       THEN /\ SetWorld(writeProjectConfig(World, inflight[i].target,
                                           inflight[i].updatedConfig))
            /\ Suspend(i, [inflight[i] EXCEPT !.pc = "resume"])
       ELSE Finish(i, Throw("io", World))

\* the handler goes on after the await: activeProjectConfig = updatedConfig,
\* then the paths of the message, from the activeProjectPath of now
UpdateResume(i) ==
    /\ inflight[i].pc = "resume"
    /\ LET w2 == [World EXCEPT !.config = inflight[i].updatedConfig]
           old == inflight[i].oldMigrationsPath
       IN IF ~IsString(old)
          THEN Finish(i, Throw("type_error", w2))
          ELSE Finish(i, Ok(w2,
                  [old |-> Resolve(activeProjectPath, old),
                   new |-> Resolve(activeProjectPath,
                                   inflight[i].args.new_migrations_path)]))

NextInterleave ==
    \E i \in Invocations :
        \/ BeginInitialize(i)
        \/ InitializeAccess(i)
        \/ InitializeRead(i)
        \/ InitializeWrite(i)
        \/ InitializeDirs(i)
        \/ BeginUpdate(i)
        \/ UpdateWrite(i)
        \/ UpdateResume(i)

SpecInterleave == InitRoots /\ [][NextInterleave]_vars

\* ---- the text of a migration ------------------------------------------
\* create_migration applied to every short SQL text over these code units

SqlUnits == {"a", "<D83D>", "<DE00>", "<FFFD>"}

RECURSIVE SqlTextsUpTo(_)
SqlTextsUpTo(n) ==
    IF n = 0 THEN {<<>>}
    ELSE LET shorter == SqlTextsUpTo(n - 1)
         IN shorter \cup {Append(s, c) : s \in shorter, c \in SqlUnits}

\* z.string(): every string, the empty one included
SqlTexts == SqlTextsUpTo(3)

InitializeProjectSql ==
    LET a == [project_path |-> P1, database_url |-> Url1,
              migrations_path |-> Undefined,
              migration_categories |-> UndefinedMap]
    IN Complete("initialize_project", a, initialize_project(World, a, clock))

CreateMigrationSql ==
    \E sql \in SqlTexts :
        LET a == [description |-> <<"a">>, sql |-> sql, category |-> Undefined]
        IN Complete("create_migration", a,
                    create_migration(World, a, clock))

NextSql ==
    \/ InitializeProjectSql
    \/ CreateMigrationSql
    \/ Tick

SpecSql == Init /\ [][NextSql]_vars

\* ---- one file written twice ----------------------------------------------
\* create_migration called again and again with one description, in a
\* process started in 2025 or at the end of year 9999; `at` is the instant
\* of the call

InitOverwrite ==
    /\ activeProjectPath = NullPath
    /\ activeProjectConfig = Null
    /\ activeFlyway = Null
    /\ dirs = {<<"/">>, P1, Cwd}
    /\ files = [p \in {} |-> Garbage]
    /\ migrations = [f \in {} |-> EmptyStr]
    /\ clock \in {0, SecondEpoch}
    /\ inflight = NoInvocations
    /\ last = [tool |-> "start", args |-> NoArgs, err |-> "none",
               cli |-> NoCall, report |-> NoReport, pre |-> [active |-> FALSE]]

CreateMigrationOverwrite ==
    \E sql \in {<<"A">>, <<"B">>} :
        LET a == [description |-> <<"a">>, sql |-> sql, category |-> Undefined,
                  at |-> clock]
        IN Complete("create_migration", a,
                    create_migration(World, a, clock))

TickOverwrite ==
    /\ clock % SecondEpoch < MaxInstant
    /\ clock' = clock + 1
    /\ UNCHANGED <<activeProjectPath, activeProjectConfig, activeFlyway,
                   files, dirs, migrations, last, inflight>>

NextOverwrite ==
    \/ InitializeProjectSql
    \/ CreateMigrationOverwrite
    \/ TickOverwrite

SpecOverwrite == InitOverwrite /\ [][NextOverwrite]_vars

DescriptionChars == {"a", "B", "1", "_", " ", "-"}

RECURSIVE StringsUpTo(_)
StringsUpTo(n) ==
    IF n = 0 THEN {<<>>}
    ELSE LET shorter == StringsUpTo(n - 1)
         IN shorter \cup {Append(d, c) : d \in shorter, c \in DescriptionChars}

InitDescription ==
    /\ activeProjectPath = NullPath
    /\ activeProjectConfig = Null
    /\ activeFlyway = Null
    /\ dirs = {<<"/">>, P1, Cwd}
    /\ files = [p \in {} |-> Garbage]
    /\ migrations = [f \in {} |-> EmptyStr]
    /\ clock = 0
    /\ inflight = NoInvocations
    /\ \E d \in StringsUpTo(MaxLen) :
          last = [tool |-> "cleanDescription", args |-> [description |-> d],
                  err |-> "none", cli |-> NoCall, report |-> NoReport,
                  pre |-> [active |-> FALSE]]

CleanDescription ==
    /\ last.report = NoReport
    /\ last' = [last EXCEPT !.report =
                    [description |-> cleanDescription(last.args.description)]]
    /\ UNCHANGED <<activeProjectPath, activeProjectConfig, activeFlyway,
                   files, dirs, migrations, clock, inflight>>

SpecDescription == InitDescription /\ [][CleanDescription]_vars

----------------------------------------------------------------------------
(* The timestamp on its own: two instants, the second later than the       *)
(* first, around the end of the current year and around the end of the     *)
(* year 9999. An instant is a number of half seconds after 23:59:59.000    *)
(* on December 31st.                                                       *)

Years == {StartYear, 9999}

InitTimestamp ==
    /\ activeProjectPath = NullPath
    /\ activeProjectConfig = Null
    /\ activeFlyway = Null
    /\ dirs = {<<"/">>, P1, Cwd}
    /\ files = [p \in {} |-> Garbage]
    /\ migrations = [f \in {} |-> EmptyStr]
    /\ clock \in 0..MaxInstant
    /\ inflight = NoInvocations
    /\ \E y \in Years :
          last = [tool |-> "timestamp", args |-> [year |-> y, t1 |-> clock],
                  err |-> "none", cli |-> NoCall,
                  report |-> [first |-> TimestampOf(toISOStringAt(y, clock))],
                  pre |-> [active |-> FALSE]]

\* the timestamp is generated again at a later instant
LaterTimestamp ==
    /\ DOMAIN last.report = {"first"}
    /\ \E t2 \in (clock + 1)..MaxInstant :
          /\ clock' = t2
          /\ last' = [last EXCEPT
                !.args = [year |-> @.year, t1 |-> @.t1, t2 |-> t2],
                !.report = [first |-> @.first,
                            second |-> TimestampOf(
                                          toISOStringAt(last.args.year, t2))]]
    /\ UNCHANGED <<activeProjectPath, activeProjectConfig, activeFlyway,
                   files, dirs, migrations, inflight>>

SpecTimestamp == InitTimestamp /\ [][LaterTimestamp]_vars

----------------------------------------------------------------------------
(* The file name on its own: every instant of the timestamp machine with   *)
(* every description of up to two characters                               *)

InitFilename ==
    /\ activeProjectPath = NullPath
    /\ activeProjectConfig = Null
    /\ activeFlyway = Null
    /\ dirs = {<<"/">>, P1, Cwd}
    /\ files = [p \in {} |-> Garbage]
    /\ migrations = [f \in {} |-> EmptyStr]
    /\ clock \in 0..MaxInstant
    /\ inflight = NoInvocations
    /\ \E y \in Years, d \in StringsUpTo(2) :
          last = [tool |-> "filename",
                  args |-> [year |-> y, t |-> clock, description |-> d],
                  err |-> "none", cli |-> NoCall, report |-> NoReport,
                  pre |-> [active |-> FALSE]]

Filename ==
    /\ last.report = NoReport
    /\ last' = [last EXCEPT !.report =
                    [filename |-> MigrationFilename(
                        TimestampOf(toISOStringAt(last.args.year, last.args.t)),
                        cleanDescription(last.args.description))]]
    /\ UNCHANGED <<activeProjectPath, activeProjectConfig, activeFlyway,
                   files, dirs, migrations, clock, inflight>>

SpecFilename == InitFilename /\ [][Filename]_vars

----------------------------------------------------------------------------
(* Claims *)

Active == requireInitializedProject(World)

SlotUnchanged ==
    UNCHANGED <<activeProjectPath, activeProjectConfig, activeFlyway>>

C2_AlwaysNoProjectError ==
    [][(last'.tool = "create_migration" /\ ~last'.pre.active) =>
          (last'.err = "no_project"
           /\ UNCHANGED <<files, dirs, migrations>>)]_vars

\* C2 (amended): create_migration before any successful initialize_project
\* fails for every argument combination, with the 'no active project' error
\* when the arguments pass the schema and with the 'Invalid arguments' error
\* when they do not, and writes no file and creates no directory.
C2_NoProjectNoWrite ==
    [][(last'.tool = "create_migration" /\ ~last'.pre.active) =>
          /\ last'.err = IF CreateMigrationSchemaOk(last'.args)
                         THEN "no_project" ELSE "validation"
          /\ UNCHANGED <<files, dirs, migrations>>]_vars

\* create_migration with well-formed arguments was refused, no project
\* being active
C2_Witness ==
    /\ last.tool = "create_migration"
    /\ ~last.pre.active
    /\ CreateMigrationSchemaOk(last.args)
    /\ last.err = "no_project"
    /\ migrations = [f \in {} |-> EmptyStr]

ConfigAndHandlePaired == (activeProjectConfig = Null) <=> (activeFlyway = Null)

\* C3 (as stated): in every reachable state, setActiveFlyway included, the
\* active config and the active CLI handle are both empty or both set.
C3_PairedAlways == ConfigAndHandlePaired

\* C3 (amended): the active config and the active CLI handle are both empty
\* at start, and every operation other than setActiveFlyway (initialize_project,
\* update_migration_path, create_migration, the pass-through calls and
\* resetProjectState, calls that fail part-way included) leaves them both
\* empty or both set when it found them so; setActiveFlyway replaces the
\* handle alone.
C3_PairedButForSetActiveFlyway ==
    /\ ConfigAndHandlePaired
    /\ [][(last'.tool # "setActiveFlyway" /\ ConfigAndHandlePaired) =>
             ConfigAndHandlePaired']_vars

\* after a reset that followed an initialization, config and handle are
\* both empty again
C3_Witness ==
    /\ last.tool = "resetProjectState"
    /\ last.pre.active
    /\ activeProjectConfig = Null
    /\ activeFlyway = Null

\* the config files that hold a JSON object
ConfigFiles == {p \in DOMAIN files : JSONparseOk(files[p]) /\ JSONparse(files[p]) # Null}

PersistedConfig(p) == JSONparse(files[p])

ExactlyOneMode(config) ==
    (config.migrations_path # Undefined)
        # (config.migration_categories # UndefinedMap)

\* C4: in every reachable state each persisted config and the in-memory
\* active config contain exactly one of migrations_path and
\* migration_categories.
C4_ExactlyOneMode ==
    /\ \A p \in ConfigFiles : ExactlyOneMode(PersistedConfig(p))
    /\ activeProjectConfig # Null => ExactlyOneMode(activeProjectConfig)

\* C5: initialize_project on a root where .flyway-mcp.json already exists
\* never writes that file, whatever it holds and whatever the arguments, and
\* the result reports the config as 'already existed'.
C5_ExistingConfigNeverWritten ==
    [][(/\ last'.tool = "initialize_project"
        /\ last' # last
        /\ ConfigPath(last'.args.project_path) \in DOMAIN files) =>
          /\ files' = files
          /\ last'.err = "none" => last'.report.config = "already existed"]_vars

\* C6: once a project's config has been written, created_at, database_url
\* and migration_categories of the persisted config never change, and
\* migrations_path changes only through a successful update_migration_path.
C6_ConfigImmutableButPath ==
    [][\A p \in ConfigFiles :
          /\ p \in DOMAIN files'
          /\ JSONparseOk(files'[p])
          /\ JSONparse(files'[p]) # Null
          /\ JSONparse(files'[p]).created_at = PersistedConfig(p).created_at
          /\ JSONparse(files'[p]).database_url = PersistedConfig(p).database_url
          /\ JSONparse(files'[p]).migration_categories
                = PersistedConfig(p).migration_categories
          /\ JSONparse(files'[p]).migrations_path
                # PersistedConfig(p).migrations_path =>
                (last'.tool = "update_migration_path" /\ last'.err = "none")]_vars

\* C7: an invocation that ends in an error leaves the ActiveProject slot and
\* every persisted config file as they were before it.
C7_ErrorsMutateNothing ==
    [][last'.err # "none" => (SlotUnchanged /\ files' = files)]_vars

\* C8: initialize_project with both migrations_path and migration_categories
\* supplied, the empty string and the empty map included, fails with
\* 'Cannot specify both' before any I/O.
C8_BothSuppliedRejected ==
    [][(/\ last'.tool = "initialize_project"
        /\ last' # last
        /\ last'.args.migrations_path # Undefined
        /\ last'.args.migration_categories # UndefinedMap) =>
          /\ last'.err = "cannot_specify_both"
          /\ SlotUnchanged
          /\ UNCHANGED <<files, dirs, migrations>>]_vars

\* C9: initialize_project with only project_path supplied, an existing
\* directory, succeeds: it leaves a config written, the migrations directory
\* made and the project active.
C9_ProjectPathAloneSucceeds ==
    (/\ last.tool = "initialize_project"
     /\ last.args.project_path = P1
     /\ last.args.database_url = Undefined
     /\ last.args.migrations_path = Undefined
     /\ last.args.migration_categories = UndefinedMap) =>
        /\ last.err = "none"
        /\ ConfigPath(P1) \in DOMAIN files
        /\ activeProjectPath = P1

\* C10: initialize_project with a root_path that does not exist fails with
\* 'Project directory does not exist' and mutates nothing.
C10_MissingRootRejected ==
    [][(/\ last'.tool = "initialize_project"
        /\ last' # last
        /\ ~access(World, last'.args.project_path)) =>
          /\ last'.err = "no_directory"
          /\ SlotUnchanged
          /\ UNCHANGED <<files, dirs, migrations>>]_vars

\* the directories a config names, resolved against its root, with the
\* directories above them
ConfigDirs(projectPath, config) ==
    IF TruthyObj(config.migration_categories)
    THEN UNION {Prefixes(Resolve(projectPath, config.migration_categories[c])) :
                    c \in DOMAIN config.migration_categories}
    ELSE Prefixes(Resolve(projectPath, config.migrations_path))

\* C11: a successful initialize_project on a root whose config file already
\* exists takes the mode, the directories it creates, the active config and
\* the handle's url and locations from that file; database_url,
\* migrations_path and migration_categories of the call have no effect.
C11_ExistingConfigWins ==
    [][(/\ last'.tool = "initialize_project"
        /\ last' # last
        /\ last'.err = "none"
        /\ ConfigPath(last'.args.project_path) \in DOMAIN files) =>
          LET projectPath == last'.args.project_path
              text == files[ConfigPath(projectPath)]
          IN /\ JSONparseOk(text)
             /\ activeProjectConfig' = JSONparse(text)
             /\ activeFlyway' = NewFlyway(projectPath, JSONparse(text),
                                   TruthyObj(JSONparse(text).migration_categories))
             /\ last'.report.mode =
                   IF TruthyObj(JSONparse(text).migration_categories)
                   THEN "structured" ELSE "simple"
             /\ dirs' = dirs \cup ConfigDirs(projectPath, JSONparse(text))]_vars

\* C12: the active root_path changes only on a successful initialize_project,
\* which sets it to the root of that call whatever project was active, and
\* on resetProjectState, which empties it; a failed initialize_project, every
\* other operation and the passing of time leave it unchanged.
C12_RootPathLifecycle ==
    [][/\ (last' # last /\ last'.tool = "initialize_project"
              /\ last'.err = "none") =>
             activeProjectPath' = last'.args.project_path
       /\ (last' # last /\ last'.tool = "resetProjectState") =>
             activeProjectPath' = NullPath
       /\ activeProjectPath' # activeProjectPath =>
             \/ last'.tool = "initialize_project" /\ last'.err = "none"
             \/ last'.tool = "resetProjectState"]_vars

\* /p2 replaced /p1 as the active project: a migration created after the
\* second initialize_project lies under /p2
C12_Witness ==
    /\ activeProjectPath = P2
    /\ join(P1, DefaultMigrations) \in dirs
    /\ last.tool = "create_migration"
    /\ last.err = "none"
    /\ last.report.path.dir = join(P2, DefaultMigrations)

\* the active project is in structured mode
StructuredMode ==
    Active /\ TruthyObj(activeProjectConfig.migration_categories)

\* C13: in structured mode create_migration with no category fails with
\* 'Category is required in structured mode' and with a category that is not
\* a key of migration_categories fails with 'Invalid category'; both messages
\* list exactly the configured category names, and no file is written and no
\* directory is created.
C13_CategoryErrors ==
    [][(/\ last'.tool = "create_migration"
        /\ last' # last
        /\ CreateMigrationSchemaOk(last'.args)
        /\ StructuredMode) =>
          LET category == last'.args.category
              configured == ObjectKeys(activeProjectConfig.migration_categories)
          IN /\ category = Undefined =>
                   /\ last'.err = "category_required"
                   /\ last'.report = [listed |-> configured]
                   /\ UNCHANGED <<files, dirs, migrations>>
             /\ (/\ category # Undefined
                 /\ Head(category) \notin
                        DOMAIN activeProjectConfig.migration_categories) =>
                   /\ last'.err = "invalid_category"
                   /\ last'.report = [listed |-> configured]
                   /\ UNCHANGED <<files, dirs, migrations>>]_vars

\* the active project is in single-directory mode
SimpleMode ==
    /\ Active
    /\ activeProjectConfig.migration_categories = UndefinedMap
    /\ activeProjectConfig.migrations_path # Undefined

\* C14: in single-directory mode create_migration ignores its category: for
\* every category value, absent or a string, a successful call writes its
\* file into the directory resolved from migrations_path.
C14_CategoryIgnored ==
    [][(/\ last'.tool = "create_migration"
        /\ last' # last
        /\ last'.err = "none"
        /\ SimpleMode) =>
          /\ last'.report.path.dir =
                Resolve(activeProjectPath, activeProjectConfig.migrations_path)
          /\ last'.report.path \in DOMAIN migrations'
          /\ migrations'[last'.report.path] = Utf8Encode(last'.args.sql)]_vars

\* C15: a successful update_migration_path(p) leaves migrations_path equal to
\* p in the persisted config and in the active config, and the create_migration
\* that follows it writes its file into the directory resolved from p (p if
\* absolute, else root_path joined with p), which exists afterwards.
C15_UpdateThenCreate ==
    [][/\ (/\ last'.tool = "update_migration_path"
           /\ last' # last
           /\ last'.err = "none") =>
             /\ activeProjectConfig'.migrations_path
                   = last'.args.new_migrations_path
             /\ JSONparse(files'[ConfigPath(activeProjectPath')]).migrations_path
                   = last'.args.new_migrations_path
       /\ (/\ last.tool = "update_migration_path"
           /\ last.err = "none"
           /\ last'.tool = "create_migration"
           /\ CreateMigrationSchemaOk(last'.args)) =>
             /\ last'.err = "none"
             /\ last'.report.path.dir =
                   Resolve(activeProjectPath, last.args.new_migrations_path)
             /\ last'.report.path.dir \in dirs'
             /\ last'.report.path \in DOMAIN migrations']_vars

\* C16: update_migration_path changes nothing on the file system but the
\* content of the active root's .flyway-mcp.json: every migration file stays
\* at its path with its content, no directory is created or removed, and no
\* other file is written.
C16_UpdateTouchesConfigOnly ==
    [][(last'.tool = "update_migration_path" /\ last' # last) =>
          /\ migrations' = migrations
          /\ dirs' = dirs
          /\ DOMAIN files' = DOMAIN files
          /\ \A p \in DOMAIN files :
                p # ConfigPath(activeProjectPath) => files'[p] = files[p]]_vars

\* the path was moved away from a directory that holds a migration file: the
\* file is where it was, the new directory was not made, and the config of
\* the other root is on disk beside the updated one
C16_Witness ==
    /\ last.tool = "update_migration_path"
    /\ last.err = "none"
    /\ last.report.new # last.report.old
    /\ last.report.new \notin dirs
    /\ \E f \in DOMAIN migrations : f.dir = last.report.old
    /\ \E p \in DOMAIN files : p # ConfigPath(activeProjectPath)

\* C17: a pass-through operation, whether the handle resolves or rejects,
\* leaves the ActiveProject slot (root_path, config, handle), the persisted
\* config files and all migration files unchanged.
C17_PassThroughFrame ==
    [][last'.tool \in PassThroughTools =>
          /\ SlotUnchanged
          /\ UNCHANGED <<files, dirs, migrations>>]_vars

\* the handle rejected a call made on an active project that has a config
\* on disk and a migration file
C17_Witness ==
    /\ last.tool \in PassThroughTools
    /\ last.err = "upstream"
    /\ last.cli # NoCall
    /\ Active
    /\ ConfigPath(activeProjectPath) \in DOMAIN files
    /\ migrations # [f \in {} |-> EmptyStr]

\* C18: a pass-through invocation that reaches the handle calls
\* the operation named after the tool exactly once; if the handle resolves,
\* the invocation returns a text whose parse is the value the handle resolved
\* with; if the handle rejects, the invocation fails with that same error.
C18_ResultRoundTrips ==
    [][(/\ last'.tool \in PassThroughTools
        /\ last' # last
        /\ PassThroughSchemaOk(last'.tool, last'.args)
        /\ Active /\ activeFlyway # Null) =>
          /\ last'.cli # NoCall
          /\ last'.cli.op = CliOperation(last'.tool)
          /\ last'.cli.calls = 1
          /\ last'.cli.answer.kind = "resolve" =>
                /\ last'.err = "none"
                /\ JSONparse(last'.report.text) = last'.cli.answer.value
          /\ last'.cli.answer.kind = "reject" =>
                /\ last'.err # "none"
                /\ last'.report.error = last'.cli.answer.error]_vars

\* C19: flyway_baseline passes the handle's baseline operation one argument
\* object that holds exactly the supplied baselineVersion and
\* baselineDescription with their values unchanged, the empty object when
\* neither is supplied.
C19_BaselineArgument ==
    [][(/\ last'.tool = "flyway_baseline"
        /\ last' # last
        /\ PassThroughSchemaOk(last'.tool, last'.args)
        /\ Active /\ activeFlyway # Null) =>
          /\ last'.cli # NoCall
          /\ last'.cli.op = "baseline"
          /\ DOMAIN last'.cli.arg = {"baselineVersion", "baselineDescription"}
          /\ last'.cli.arg.baselineVersion = last'.args.baselineVersion
          /\ last'.cli.arg.baselineDescription
                = last'.args.baselineDescription]_vars

\* baseline was called with a version alone
C19_Witness ==
    /\ last.tool = "flyway_baseline"
    /\ last.cli # NoCall
    /\ last.cli.arg.baselineVersion = <<"1">>
    /\ last.cli.arg.baselineDescription = Undefined

\* C20: for every description the sanitized description holds characters of
\* [a-z0-9_] only, does not start or end with '_' and holds no two
\* consecutive '_'.
C20_SanitizedShape ==
    (last.tool = "cleanDescription" /\ last.report # NoReport) =>
        LET c == last.report.description
        IN /\ \A i \in 1..Len(c) : c[i] \in LowerLetters \cup Digits \cup {"_"}
           /\ c # <<>> => (c[1] # "_" /\ c[Len(c)] # "_")
           /\ \A i \in 1..(Len(c) - 1) : ~(c[i] = "_" /\ c[i + 1] = "_")

\* 'B -1' was sanitized to 'b_1': lower-cased, the run ' -' made one '_'
C20_Witness ==
    /\ last.tool = "cleanDescription"
    /\ last.args.description = <<"B", " ", "-", "1">>
    /\ last.report # NoReport
    /\ last.report.description = <<"b", "_", "1">>

\* s is the text of an unsigned decimal integer
IsDecimal(s) == s # <<>> /\ \A i \in 1..Len(s) : s[i] \in Digits

DigitValue(c) == CHOOSE n \in 0..9 : Digit(n) = c

\* a <= b for the decimal integers written by two texts of the same length
RECURSIVE DecimalLeq(_, _)
DecimalLeq(a, b) ==
    IF a = <<>> THEN TRUE
    ELSE IF Head(a) = Head(b) THEN DecimalLeq(Tail(a), Tail(b))
    ELSE DigitValue(Head(a)) < DigitValue(Head(b))

\* C21: for two instants t1 < t2 the timestamp of t1, read as an unsigned
\* decimal integer, is less than or equal to the timestamp of t2, and the
\* two are equal only when both instants fall in the same second.
C21_TimestampsOrdered ==
    (last.tool = "timestamp" /\ DOMAIN last.report = {"first", "second"}) =>
        /\ IsDecimal(last.report.first)
        /\ IsDecimal(last.report.second)
        /\ Len(last.report.first) = Len(last.report.second)
        /\ DecimalLeq(last.report.first, last.report.second)
        /\ last.report.first = last.report.second =>
              last.args.t1 \div 2 = last.args.t2 \div 2

\* the fourteen digits of an instant: UTC year, month, day, hour, minute and
\* second, zero-padded
FourteenDigits(y, t) ==
    LET secs == BaseSecond + (t \div 2)
        date == DateOfDay(y, secs \div 86400)
        sod == secs % 86400
    IN Pad4(date[1]) \o Pad2(date[2]) \o Pad2(date[3])
       \o Pad2(sod \div 3600) \o Pad2((sod \div 60) % 60) \o Pad2(sod % 60)

\* C22: for every instant and every description the file name is 'V', then
\* exactly 14 ASCII digits (UTC year, month, day, hour, minute, second,
\* zero-padded), then '__', then the sanitized description, then '.sql'.
C22_FilenameShape ==
    (last.tool = "filename" /\ last.report # NoReport) =>
        LET n == last.report.filename
            len == Len(n)
        IN /\ len >= 21
           /\ n[1] = "V"
           /\ \A i \in 2..15 : n[i] \in Digits
           /\ SubSeq(n, 2, 15) = FourteenDigits(last.args.year, last.args.t)
           /\ SubSeq(n, 16, 17) = <<"_", "_">>
           /\ SubSeq(n, 18, len - 4) = cleanDescription(last.args.description)
           /\ SubSeq(n, len - 3, len) = <<".", "s", "q", "l">>

\* C23 (as stated): after a successful create_migration with sql S, reading
\* the file at the reported path gives exactly S, for every string S.
C23_SqlRoundTrips ==
    (last.tool = "create_migration" /\ last.err = "none") =>
        /\ last.report.path \in DOMAIN migrations
        /\ Utf8Decode(migrations[last.report.path]) = last.args.sql

\* S has no unpaired surrogate
WellFormed(s) == \A i \in 1..Len(s) : ~UnpairedSurrogate(s, i)

\* C23 (amended): after a successful create_migration with sql S, reading
\* the file at the reported path gives S with every unpaired surrogate
\* replaced by U+FFFD and every other code unit unchanged: exactly S for
\* every well-formed string S.
C23_SqlWrittenAsUtf8 ==
    (last.tool = "create_migration" /\ last.err = "none") =>
        /\ last.report.path \in DOMAIN migrations
        /\ LET S == last.args.sql
               read == Utf8Decode(migrations[last.report.path])
           IN /\ Len(read) = Len(S)
              /\ \A i \in 1..Len(S) :
                    read[i] = IF UnpairedSurrogate(S, i) THEN "<FFFD>" ELSE S[i]
              /\ WellFormed(S) => read = S

\* an sql text with a surrogate pair was written and reads back as it was
C23_Witness ==
    /\ last.tool = "create_migration"
    /\ last.err = "none"
    /\ last.args.sql = <<"a", "<D83D>", "<DE00>">>
    /\ last.report.path \in DOMAIN migrations
    /\ Utf8Decode(migrations[last.report.path]) = last.args.sql

\* the directories a config names, resolved against its root
NamedDirs(projectPath, config) ==
    IF TruthyObj(config.migration_categories)
    THEN {Resolve(projectPath, config.migration_categories[c]) :
              c \in DOMAIN config.migration_categories}
    ELSE {Resolve(projectPath, config.migrations_path)}

\* the directories part of C24: every named directory exists afterwards and
\* is reported 'created' exactly when it did not exist before the call
InitializeReportsDirs ==
    LET cd == last'.report.createdDirs
    IN /\ NamedDirs(activeProjectPath', activeProjectConfig') \subseteq dirs'
       /\ {cd[i][2] : i \in DOMAIN cd} =
              NamedDirs(activeProjectPath', activeProjectConfig')
       /\ \A i \in DOMAIN cd :
              /\ cd[i][3] \in {"created", "already existed"}
              /\ (cd[i][3] = "created") <=> (cd[i][2] \notin dirs)

\* C24: after a successful initialize_project every directory named by the
\* resolved config exists, the result reports each directory as 'created'
\* exactly when it did not exist before the call and as 'already existed'
\* otherwise, and likewise for the config file.
C24_InitializeReports ==
    [][(/\ last'.tool = "initialize_project"
        /\ last' # last
        /\ last'.err = "none")
       => /\ InitializeReportsDirs
          /\ last'.report.config \in {"created", "already existed"}
          /\ (last'.report.config = "created") <=>
                 (ConfigPath(activeProjectPath') \notin DOMAIN files)]_vars

\* a successful initialize_project on a root without a config file persisted
\* a config of the mode the arguments ask for; in single-directory mode its
\* migrations_path is './migrations' when the argument is one of `defaulted`
\* and the argument otherwise
PersistsNewConfig(defaulted) ==
    (/\ last'.tool = "initialize_project"
     /\ last' # last
     /\ last'.err = "none"
     /\ ConfigPath(last'.args.project_path) \notin DOMAIN files)
    => LET a == last'.args
           p == ConfigPath(a.project_path)
       IN /\ p \in DOMAIN files'
          /\ JSONparseOk(files'[p])
          /\ LET c == JSONparse(files'[p])
             IN /\ c.database_url = a.database_url
                /\ IF a.migration_categories # UndefinedMap
                   THEN /\ c.migration_categories = a.migration_categories
                        /\ c.migrations_path = Undefined
                   ELSE /\ c.migration_categories = UndefinedMap
                        /\ c.migrations_path =
                              IF a.migrations_path \in defaulted
                              THEN DefaultMigrations
                              ELSE a.migrations_path

\* C25 (as stated): when no config file exists at the root, initialize_project
\* persists a new config in structured mode (migration_categories equal to
\* the argument, no migrations_path) if migration_categories is given, and
\* otherwise in single-directory mode with migrations_path equal to the
\* argument, or './migrations' when that argument is absent.
C25_NewConfig == [][PersistsNewConfig({Undefined})]_vars

\* C25 (amended): as stated, with './migrations' also when the
\* migrations_path argument is the empty string.
C25_NewConfigDefaults == [][PersistsNewConfig({Undefined, EmptyStr})]_vars

\* a call with a non-empty migrations_path persisted it on a root that had
\* no config file
C25_Witness ==
    /\ last.tool = "initialize_project"
    /\ last.err = "none"
    /\ last.report.config = "created"
    /\ last.args.migrations_path = RelDb
    /\ ConfigPath(last.args.project_path) \in DOMAIN files
    /\ JSONparseOk(files[ConfigPath(last.args.project_path)])
    /\ JSONparse(files[ConfigPath(last.args.project_path)]).migrations_path
          = RelDb

\* C26: in every reachable state with an active project the CLI handle is
\* bound to the current active config: its url is the config's database_url
\* and its locations are the directories resolved from the current config
\* (the current migrations_path, or all category paths), also after
\* update_migration_path has changed migrations_path.
C26_HandleBound ==
    Active =>
        activeFlyway = NewFlyway(activeProjectPath, activeProjectConfig,
                                 TruthyObj(activeProjectConfig.migration_categories))

\* two instants of the clock fall in the same second
SameSecond(t1, t2) == t1 \div 2 = t2 \div 2

\* C27: a migration file once written is never changed by a later operation,
\* except that a later create_migration that resolves to the same directory,
\* falls in the same clock second and has a description with the same
\* sanitized form targets the same path, succeeds and leaves the file
\* holding the later call's sql. Here: a file is left as it was by every
\* step that does not write it, and a successful create_migration that
\* writes the file of the successful create_migration before it falls in
\* the same second and leaves its sql in the file.
C27_WrittenOnce ==
    [][/\ \A f \in DOMAIN migrations :
            /\ f \in DOMAIN migrations'
            /\ migrations'[f] # migrations[f] =>
                   /\ last'.tool = "create_migration"
                   /\ last'.err = "none"
                   /\ last'.report.path = f
       /\ (/\ last.tool = "create_migration" /\ last.err = "none"
           /\ last'.tool = "create_migration" /\ last'.err = "none"
           /\ last' # last
           /\ last'.report.path = last.report.path)
          => /\ SameSecond(last.args.at, last'.args.at)
             /\ Utf8Decode(migrations'[last'.report.path]) = last'.args.sql]_vars

\* no invocation is suspended at an await
Quiescent == \A i \in Invocations : inflight[i] = Idle

\* C28: tool invocations never overlap in their mutation of ActiveProject or
\* of a project's config file: when two invocations interleave at their
\* awaits, the resulting ActiveProject and config file are what running the
\* two one after the other would produce, and root_path and config never
\* belong to different projects. Run one after the other, the invocations
\* leave the active config equal to the config file of the active root
\* (C30), so the same is asked here of every state in which no invocation is
\* in flight.
C28_Serializable ==
    (Quiescent /\ Active) =>
        /\ ConfigPath(activeProjectPath) \in DOMAIN files
        /\ JSONparseOk(files[ConfigPath(activeProjectPath)])
        /\ JSONparse(files[ConfigPath(activeProjectPath)]) = activeProjectConfig

\* C29: whenever create_migration succeeds while a project is active, the
\* file is written inside the directory resolved from the active project's
\* own config (migrations_path, or the chosen category's path, taken as is
\* when absolute and joined to root_path otherwise); the global-config
\* location and the './migrations' fallback are never used, for every config
\* value that initialize_project or update_migration_path accepts.
C29_OwnDirectory ==
    [][(/\ last'.tool = "create_migration"
        /\ last' # last
        /\ last'.err = "none"
        /\ Active) =>
          /\ last'.report.path \in DOMAIN migrations'
          /\ last'.report.path.dir =
                IF TruthyObj(activeProjectConfig.migration_categories)
                THEN Resolve(activeProjectPath,
                        activeProjectConfig.migration_categories[
                            Head(last'.args.category)])
                ELSE Resolve(activeProjectPath,
                             activeProjectConfig.migrations_path)]_vars

\* C30: with invocations processed one at a time and no external writer,
\* after every completed invocation (successful or failed) in which a
\* project is active, the in-memory active config equals the JSON content of
\* .flyway-mcp.json at the active root_path.
C30_ConfigMatchesFile ==
    Active =>
        /\ ConfigPath(activeProjectPath) \in DOMAIN files
        /\ JSONparseOk(files[ConfigPath(activeProjectPath)])
        /\ JSONparse(files[ConfigPath(activeProjectPath)]) = activeProjectConfig

\* a project is active and its config was rewritten by an
\* update_migration_path that failed after the write
C30_Witness ==
    /\ Active
    /\ last.tool = "update_migration_path"
    /\ last.err = "type_error"
    /\ activeProjectConfig.migrations_path = AbsExt
    /\ JSONparse(files[ConfigPath(activeProjectPath)]) = activeProjectConfig

====
